---- MODULE Spec2Model ----
(***************************************************************************)
(* Revive Print Kiosk (raspberry_pi_kiosk.py).                             *)
(*                                                                         *)
(* Three kinds of threads share the PrintKiosk object:                     *)
(*   - the Tk main loop, which runs the screen handlers, the button        *)
(*     commands and the callbacks scheduled with root.after;               *)
(*   - the Flask request threads, each running receive_file;               *)
(*   - the print workers, each running do_print.                           *)
(* The spooler (CUPS), the clock, the scratch directory and the user are   *)
(* the environment: what they answer is drawn from small sets.             *)
(***************************************************************************)
EXTENDS Integers, Sequences, FiniteSets, TLC

(* ------------------------------ bounds --------------------------------- *)
\* number of upload requests handled in one run
MaxUploads == 2
\* number of presses of Print (print workers) in one run
MaxJobs == 2
\* the clock int(time.time()) ranges over 0..MaxClock
MaxClock == 1
\* changes of the reported job-state one worker can see, the final one included
MaxPolls == 3
\* pages convert_from_path may return
MaxPages == 2

Requests == 1..MaxUploads
Workers == 1..MaxJobs

(* ------------------------------ inputs --------------------------------- *)
\* file.filename of an upload; "" is the empty filename
Filenames == {"", "a.pdf", "b.pdf"}
\* the filenames tried while uploads and jobs interleave; every value in
\* Filenames is tried by SpecIntake below
SessionFilenames == {"", "a.pdf"}
\* what the widgets of the Preview screen hold when Print is pressed:
\* page_range_var, the text of the custom_range entry (line 347 puts the
\* placeholder there), orientation_var and duplex_var
Placeholder == "e.g. 1-3,5"
CustomEntries == {Placeholder, "", "1-2", "3-2", "1-10", "1-x"}
PageRangeChoices == {"all", "custom"}
Orientations == {"portrait", "landscape"}
Duplexes == {"none", "long", "short"}
Widgets == [choice : PageRangeChoices, entry : CustomEntries,
            orientation : Orientations, duplex : Duplexes]
\* the widget values tried while uploads and jobs interleave; every value in
\* Widgets is tried by SpecPrint below
SessionWidgets ==
    {[choice |-> "all", entry |-> Placeholder, orientation |-> "portrait",
      duplex |-> "none"],
     [choice |-> "custom", entry |-> "3-2", orientation |-> "landscape",
      duplex |-> "long"]}
\* what getJobs reports about a job: a job-state, the job missing from the
\* list, or an exception
ActiveReports == {"submitted", "printing"}
FinalReports == {"completed", "cancelled", "missing", "error"}

\* Python's None, where a stored path is expected
None == <<>>

(* --------------------------- pure helpers ------------------------------ *)
\* os.path.join(temp_dir, f"print_{int(time.time())}_{file.filename}"):
\* the decimal clock value is closed by the first "_" after "print_", so the
\* text determines the pair (clock, filename) and the pair determines the text.
StoredPath(t, name) == <<"print", t, name>>

\* a Python dict as a function on its keys
EmptyDict == [k \in {} |-> ""]
DictSet(d, k, v) == [x \in (DOMAIN d) \cup {k} |-> IF x = k THEN v ELSE d[x]]

\* job-state codes the polling loop tests: 9 completed, 8 cancelled
JobCompleted == 9
JobCancelled == 8
JobStateCode(report) ==
    CASE report = "completed" -> JobCompleted
      [] report = "cancelled" -> JobCancelled
      [] report = "printing" -> 5
      [] OTHER -> 3

\* start_printing: the page_range it stores
CollectPageRange(choice, entry) ==
    IF choice = "custom"
    THEN IF entry = Placeholder THEN "all" ELSE entry
    ELSE "all"

\* start_printing, lines 504-508: the print_settings it stores
CollectSettings(widgets) ==
    [page_range |-> CollectPageRange(widgets.choice, widgets.entry),
     orientation |-> widgets.orientation,
     duplex |-> widgets.duplex]

\* what the widgets hold when show_preview has built them (lines 316, 347,
\* 358, 393)
DefaultWidgets ==
    [choice |-> "all", entry |-> Placeholder, orientation |-> "portrait",
     duplex |-> "none"]

\* do_print: the three groups of option assignments
PageRangeOption(options, page_range) ==
    IF page_range # "all" THEN DictSet(options, "page-ranges", page_range)
    ELSE options

\* OrientationOption with the two codes exchanged
OrientationOption_Swapped(options, orientation) ==
    IF orientation = "landscape"
    THEN DictSet(options, "orientation-requested", "3")
    ELSE DictSet(options, "orientation-requested", "4")

OrientationOption(options, orientation) ==
    IF orientation = "landscape"
    THEN DictSet(options, "orientation-requested", "4")
    ELSE DictSet(options, "orientation-requested", "3")

SidesOption(options, duplex) ==
    IF duplex = "long" THEN DictSet(options, "sides", "two-sided-long-edge")
    ELSE IF duplex = "short" THEN DictSet(options, "sides", "two-sided-short-edge")
    ELSE DictSet(options, "sides", "one-sided")

(* ------------------------------- state --------------------------------- *)
VARIABLES
    clock,            \* int(time.time()) when it was last read
    cups_conn,        \* TRUE iff cups.Connection() succeeded in __init__
    current_screen,
    current_file,     \* None or a stored path
    preview_images,   \* len(self.preview_images)
    current_page,
    print_settings,
    countdown,
    loop_pc,          \* where the Tk main loop is: "mainloop", "showerror"
                      \* (show_preview waits in its error dialog), "exited"
    loop_calls,       \* the slow calls the main loop thread has made itself
    after_queue,      \* callbacks scheduled with root.after(0, ...), in order
    timers,           \* pending root.after(1000, self.do_countdown) timers
    files,            \* scratch directory: stored path -> request whose bytes it holds
    reqs,             \* the receive_file request threads
    workers           \* the do_print threads

vars == <<clock, cups_conn, current_screen, current_file, preview_images,
          current_page, print_settings, countdown, loop_pc, loop_calls,
          after_queue, timers, files, reqs, workers>>

\* the main loop's own position and record
loop == <<loop_pc, loop_calls>>

session == <<current_screen, current_file, preview_images, current_page,
             print_settings, countdown>>

IdleRequest ==
    [pc |-> "idle", has_file |-> FALSE, filename |-> "", path |-> None,
     status |-> 0, error |-> "none", stored |-> FALSE, published |-> FALSE,
     turn |-> 0, scheduled |-> FALSE]

IdleWorker ==
    [pc |-> "idle", widgets |-> DefaultWidgets, active |-> None,
     document |-> None, options |-> EmptyDict, hist |-> <<>>, submits |-> 0,
     succ |-> 0, fail |-> 0, back |-> 0, dialog |-> "none"]

Init ==
    /\ clock = 0
    /\ cups_conn \in BOOLEAN
    /\ current_screen = "welcome"
    /\ current_file = None
    /\ preview_images = 0
    /\ current_page = 0
    /\ print_settings = [page_range |-> "all", orientation |-> "portrait",
                         duplex |-> "none"]
    /\ countdown = 0
    /\ loop_pc = "mainloop"
    /\ loop_calls = {}
    /\ after_queue = <<>>
    /\ timers = 0
    /\ files = [p \in {} |-> 0]
    /\ reqs = [r \in Requests |-> IdleRequest]
    /\ workers = [w \in Workers |-> IdleWorker]

(* ------------------------ receive_file (Flask) -------------------------- *)
\* A request's record holds its inputs, the path it built, its answer, the
\* call that raised (error) and what it has done so far: stored (file.save
\* wrote the file), published (line 781 ran), turn (it was the turn-th request
\* to run line 781), scheduled (line 782 ran).

\* the process runs until the main loop has returned: the request threads and
\* the print workers are daemon threads (lines 513, 798)
Running == loop_pc # "exited"

\* how many requests have run line 781
Published == Cardinality({r \in Requests : reqs[r].published})

\* ValidUpload without the test of line 769
ValidUpload_NoFilenameTest(has_file, filename) == has_file

\* lines 765-770: the request has a 'file' part whose filename is not empty
ValidUpload(has_file, filename) == has_file /\ filename # ""

\* lines 766, 770: the 400 answers
RejectUpload(req) == [req EXCEPT !.pc = "done", !.status = 400]

\* StorageError with the exception swallowed: the handler goes on to line 781
StorageError_Swallowed(req) == [req EXCEPT !.pc = "assign"]

\* lines 790-792: an exception of file.save or os.path.getsize is answered 500
StorageError(req) == [req EXCEPT !.pc = "done", !.status = 500]

\* lines 764-778. A request arrives; a valid one builds its path from the
\* clock and the filename, writes the bytes there (over whatever the path
\* held) and reads the size back. t is the clock's value now: time does not
\* run backwards. Requests are numbered in the order they arrive.
ReceiveFileSave(r, has_file, filename, t) ==
    /\ Running
    /\ reqs[r].pc = "idle"
    /\ r > 1 => reqs[r - 1].pc # "idle"
    /\ has_file \/ filename = ""
    /\ t \in clock..MaxClock
    /\ LET req == [reqs[r] EXCEPT !.has_file = has_file, !.filename = filename]
           path == StoredPath(t, filename)
       IN IF ~ValidUpload(has_file, filename)
          THEN /\ t = clock
               /\ reqs' = [reqs EXCEPT ![r] = RejectUpload(req)]
               /\ UNCHANGED <<clock, files>>
          ELSE /\ clock' = t
               /\ \/ \* file.save raises: nothing is written
                     /\ reqs' = [reqs EXCEPT ![r] =
                                   StorageError([req EXCEPT !.error = "save"])]
                     /\ UNCHANGED files
                  \/ \* file.save writes the file, os.path.getsize raises
                     /\ reqs' = [reqs EXCEPT ![r] =
                                   StorageError([req EXCEPT !.error = "getsize",
                                                            !.stored = TRUE])]
                     /\ files' = DictSet(files, path, r)
                  \/ \* both succeed
                     /\ reqs' = [reqs EXCEPT ![r] =
                          [req EXCEPT !.pc = "assign", !.path = path, !.stored = TRUE]]
                     /\ files' = DictSet(files, path, r)
    /\ UNCHANGED <<cups_conn, session, loop, after_queue, timers, workers>>

\* line 781: self.current_file = filepath, on the request thread
ReceiveFileAssign(r) ==
    /\ Running
    /\ reqs[r].pc = "assign"
    /\ current_file' = reqs[r].path
    /\ reqs' = [reqs EXCEPT ![r] = [@ EXCEPT !.pc = "after", !.published = TRUE,
                                              !.turn = Published + 1]]
    /\ UNCHANGED <<clock, cups_conn, current_screen, preview_images, current_page,
                   print_settings, countdown, loop, after_queue, timers, files,
                   workers>>

\* ReceiveFileSchedule without the call of line 782
ReceiveFileSchedule_NoCallback(r) ==
    /\ Running
    /\ reqs[r].pc = "after"
    /\ reqs' = [reqs EXCEPT ![r] = [@ EXCEPT !.pc = "done", !.status = 200,
                                              !.scheduled = TRUE]]
    /\ UNCHANGED <<clock, cups_conn, session, loop, after_queue, timers, files,
                   workers>>

\* lines 782-788: root.after(0, show_file_confirmation) and the 200 answer
ReceiveFileSchedule(r) ==
    /\ Running
    /\ reqs[r].pc = "after"
    /\ after_queue' = Append(after_queue, [cb |-> "show_file_confirmation", id |-> r])
    /\ reqs' = [reqs EXCEPT ![r] = [@ EXCEPT !.pc = "done", !.status = 200,
                                              !.scheduled = TRUE]]
    /\ UNCHANGED <<clock, cups_conn, session, loop, timers, files, workers>>

(* ----------------------- screens (Tk main loop) ------------------------- *)
\* show_welcome, lines 85-88
ShowWelcome ==
    /\ current_screen' = "welcome"

\* PreviewFailed without the except clause of lines 241-244
PreviewFailed_DecodeIgnored(exists, rendered) == ~exists

\* show_preview, lines 232 and 240-241: the file is gone, or convert_from_path
\* raises (rendered = 0)
PreviewFailed(exists, rendered) == ~exists \/ rendered = 0

\* show_preview, lines 227-244 and 462, up to its return or to the error
\* dialog it waits in. The document is rendered by the main loop thread
\* itself. messagebox.showerror returns when the user closes the dialog; until
\* then the main window takes no input, while callbacks and timers still run.
ShowPreview(rendered) ==
    LET exists == current_file # None /\ current_file \in DOMAIN files
    IN /\ current_screen' = "preview"
       /\ loop_calls' = IF exists THEN loop_calls \cup {"convert_from_path"}
                        ELSE loop_calls
       /\ IF PreviewFailed(exists, rendered)
          THEN /\ loop_pc' = "showerror"
               /\ UNCHANGED <<preview_images, current_page>>
          ELSE /\ loop_pc' = "mainloop"
               /\ preview_images' = rendered
               /\ current_page' = 0

\* the Proceed button of the Confirmation screen
Proceed(rendered) ==
    /\ loop_pc = "mainloop"
    /\ current_screen = "confirmation"
    /\ ShowPreview(rendered)
    /\ UNCHANGED <<clock, cups_conn, current_file, print_settings, countdown,
                   after_queue, timers, files, reqs, workers>>

\* show_preview, lines 234-235 and 243-244: the error dialog is closed
DismissError ==
    /\ loop_pc = "showerror"
    /\ loop_pc' = "mainloop"
    /\ ShowWelcome
    /\ UNCHANGED <<clock, cups_conn, current_file, preview_images, current_page,
                   print_settings, countdown, loop_calls, after_queue, timers,
                   files, reqs, workers>>

\* the Cancel buttons of the Confirmation and Preview screens
Cancel ==
    /\ loop_pc = "mainloop"
    /\ current_screen \in {"confirmation", "preview"}
    /\ ShowWelcome
    /\ UNCHANGED <<clock, cups_conn, current_file, preview_images, current_page,
                   print_settings, countdown, loop, after_queue, timers, files,
                   reqs, workers>>

\* prev_page, lines 484-485
PrevIndex(page, count) == IF page > 0 THEN page - 1 ELSE page

\* NextIndex without the test of line 490
NextIndex_Unbounded(page, count) == page + 1

\* next_page, lines 490-491
NextIndex(page, count) == IF page < count - 1 THEN page + 1 ELSE page

\* prev_page, lines 482-486
PrevPage ==
    /\ loop_pc = "mainloop"
    /\ current_screen = "preview"
    /\ current_page' = PrevIndex(current_page, preview_images)
    /\ UNCHANGED <<clock, cups_conn, current_screen, current_file, preview_images,
                   print_settings, countdown, loop, after_queue, timers, files,
                   reqs, workers>>

\* next_page, lines 488-492
NextPage ==
    /\ loop_pc = "mainloop"
    /\ current_screen = "preview"
    /\ current_page' = NextIndex(current_page, preview_images)
    /\ UNCHANGED <<clock, cups_conn, current_screen, current_file, preview_images,
                   print_settings, countdown, loop, after_queue, timers, files,
                   reqs, workers>>

\* start_printing, lines 494-513: the Print button of the Preview screen. The
\* widgets' values are what the user left in them; w is the thread started,
\* whose record keeps them until the job is over.
StartPrinting(w, widgets) ==
    /\ loop_pc = "mainloop"
    /\ current_screen = "preview"
    /\ workers[w].pc = "idle"
    /\ w > 1 => workers[w - 1].pc # "idle"
    /\ print_settings' = CollectSettings(widgets)
    /\ current_screen' = "printing"
    /\ workers' = [workers EXCEPT ![w] = [@ EXCEPT !.pc = "sleep",
                                                   !.widgets = widgets,
                                                   !.active = current_file]]
    /\ UNCHANGED <<clock, cups_conn, current_file, preview_images, current_page,
                   countdown, loop, after_queue, timers, files, reqs>>

\* cleanup, lines 802-808: os.remove(self.current_file), whose failure is
\* passed over
Cleanup(removed) ==
    IF current_file # None /\ current_file \in DOMAIN files /\ removed
    THEN [p \in (DOMAIN files) \ {current_file} |-> files[p]]
    ELSE files

\* on_closing, lines 816-818: cleanup, then root.destroy() ends the main loop
\* and with it the process
OnClosing(removed) ==
    /\ loop_pc = "mainloop"
    /\ files' = Cleanup(removed)
    /\ loop_pc' = "exited"
    /\ UNCHANGED <<clock, cups_conn, session, loop_calls, after_queue, timers,
                   reqs, workers>>

\* the scratch directory is the system's (tempfile.gettempdir(), line 773):
\* a stored file can be removed from outside the kiosk
ScratchCleaner(p) ==
    /\ Running
    /\ p \in DOMAIN files
    /\ files' = [q \in (DOMAIN files) \ {p} |-> files[q]]
    /\ UNCHANGED <<clock, cups_conn, session, loop, after_queue, timers, reqs,
                   workers>>

\* self.countdown = 5, line 674
CountdownStart == 5

\* do_countdown, lines 686-696: the screen and the counter it leaves, and
\* whether it schedules itself again
DoCountdown(screen, cd) ==
    IF screen # "success"
    THEN [screen |-> screen, countdown |-> cd, again |-> FALSE]
    ELSE IF cd > 0
    THEN [screen |-> screen, countdown |-> cd - 1, again |-> TRUE]
    ELSE [screen |-> "welcome", countdown |-> cd, again |-> FALSE]

\* a root.after(1000, self.do_countdown) timer fires
CountdownTimer ==
    /\ Running
    /\ timers > 0
    /\ LET r == DoCountdown(current_screen, countdown)
       IN /\ current_screen' = r.screen
          /\ countdown' = r.countdown
          /\ timers' = IF r.again THEN timers ELSE timers - 1
    /\ UNCHANGED <<clock, cups_conn, current_file, preview_images, current_page,
                   print_settings, loop, after_queue, files, reqs, workers>>

\* The lambda of line 639 reads the except clause's variable e when it runs.
\* Python unbinds e when the except clause is left, so the dialog is shown only
\* if the worker is still inside the clause; afterwards the lambda raises
\* NameError and no dialog appears.
ErrorDialog(worker) ==
    IF worker.pc = "except" THEN "shown" ELSE "lost"

\* the main loop runs the next callback scheduled with root.after(0, ...)
RunCallback ==
    /\ Running
    /\ after_queue # <<>>
    /\ after_queue' = Tail(after_queue)
    /\ LET c == Head(after_queue)
       IN CASE c.cb = "show_file_confirmation" ->
                 \* lines 152-155
                 /\ current_screen' = "confirmation"
                 /\ UNCHANGED <<countdown, timers, workers>>
            [] c.cb = "show_success" ->
                 \* lines 642-645, 674, 684 and the first pass of do_countdown
                 /\ LET r == DoCountdown("success", CountdownStart)
                    IN /\ current_screen' = r.screen
                       /\ countdown' = r.countdown
                       /\ timers' = IF r.again THEN timers + 1 ELSE timers
                 /\ UNCHANGED workers
            [] c.cb = "showerror" ->
                 /\ workers' = [workers EXCEPT ![c.id] =
                                  [@ EXCEPT !.dialog = ErrorDialog(workers[c.id])]]
                 /\ UNCHANGED <<current_screen, countdown, timers>>
            [] c.cb = "show_welcome" ->
                 /\ ShowWelcome
                 /\ UNCHANGED <<countdown, timers, workers>>
    /\ UNCHANGED <<clock, cups_conn, current_file, preview_images, current_page,
                   print_settings, loop, files, reqs>>

(* ------------------------ do_print (worker) ----------------------------- *)
\* A worker's record holds the widgets' values of its press of Print, the
\* active document at that press (active), the document it gave to printFile
\* (document) and the options of the job, all while the job is under way, hist: what getJobs has answered about the job so far (an answer
\* that repeats the one before is not added), and counters of what the thread
\* has done: calls of printFile, show_success callbacks (line 635), error
\* dialogs (line 639) and show_welcome callbacks (line 640) scheduled. dialog
\* tells what became of the error dialog.

\* lines 637-639: an exception anywhere in the try block enters the except
\* clause, whose first statements log it and schedule the error dialog
Raise(worker) ==
    [worker EXCEPT !.pc = "except", !.fail = @ + 1, !.options = EmptyDict,
                   !.widgets = DefaultWidgets, !.active = None,
                   !.document = None]

\* line 635: the loop was left by break
Succeed(worker) ==
    [worker EXCEPT !.pc = "done", !.succ = @ + 1, !.options = EmptyDict,
                   !.widgets = DefaultWidgets, !.active = None,
                   !.document = None]

\* PollOutcome with the tests of lines 629 and 631 exchanged
PollOutcome_CodesSwapped(report) ==
    IF report = "error" THEN "raise"
    ELSE IF report = "missing" THEN "success"
    ELSE IF JobStateCode(report) = JobCancelled THEN "success"
    ELSE IF JobStateCode(report) = JobCompleted THEN "raise"
    ELSE "again"

\* PollOutcome with a job missing from the list taken as a failure
PollOutcome_MissingRaises(report) ==
    IF report = "error" THEN "raise"
    ELSE IF report = "missing" THEN "raise"
    ELSE IF JobStateCode(report) = JobCompleted THEN "success"
    ELSE IF JobStateCode(report) = JobCancelled THEN "raise"
    ELSE "again"

\* lines 625-632: what one answer of getJobs does to the polling loop
PollOutcome(report) ==
    IF report = "error" THEN "raise"
    ELSE IF report = "missing" THEN "success"
    ELSE IF JobStateCode(report) = JobCompleted THEN "success"
    ELSE IF JobStateCode(report) = JobCancelled THEN "raise"
    ELSE "again"

\* line 586: if not self.cups_conn: raise
ConnectionAvailable(conn) == conn

\* the answers so far, a repeated one counted once
Told(hist, report) ==
    IF hist # <<>> /\ hist[Len(hist)] = report THEN hist ELSE Append(hist, report)

\* lines 584-594: after the sleep, the connection test and the page range
DoPrintBegin(w) ==
    /\ Running
    /\ workers[w].pc = "sleep"
    /\ IF ~ConnectionAvailable(cups_conn)
       THEN /\ workers' = [workers EXCEPT ![w] = Raise(@)]
            /\ after_queue' = Append(after_queue, [cb |-> "showerror", id |-> w])
       ELSE /\ workers' = [workers EXCEPT ![w] =
                 [@ EXCEPT !.pc = "orient",
                           !.options = PageRangeOption(EmptyDict, print_settings.page_range)]]
            /\ UNCHANGED after_queue
    /\ UNCHANGED <<clock, cups_conn, session, loop, timers, files, reqs>>

\* lines 597-600
DoPrintOrientation(w) ==
    /\ Running
    /\ workers[w].pc = "orient"
    /\ workers' = [workers EXCEPT ![w] =
         [@ EXCEPT !.pc = "duplex",
                   !.options = OrientationOption(@, print_settings.orientation)]]
    /\ UNCHANGED <<clock, cups_conn, session, loop, after_queue, timers, files, reqs>>

\* lines 603-608
DoPrintSides(w) ==
    /\ Running
    /\ workers[w].pc = "duplex"
    /\ workers' = [workers EXCEPT ![w] =
         [@ EXCEPT !.pc = "submit",
                   !.options = SidesOption(@, print_settings.duplex)]]
    /\ UNCHANGED <<clock, cups_conn, session, loop, after_queue, timers, files, reqs>>

\* lines 611-616: printFile(PRINTER_NAME, self.current_file, "Print Job", options)
DoPrintSubmit(w) ==
    /\ Running
    /\ workers[w].pc = "submit"
    /\ LET called == [workers[w] EXCEPT !.submits = @ + 1,
                                        !.document = current_file]
       IN \/ \* the spooler takes the job and answers its id
             /\ workers' = [workers EXCEPT ![w] = [called EXCEPT !.pc = "poll"]]
             /\ UNCHANGED after_queue
          \/ \* the spooler refuses the job: printFile raises
             /\ workers' = [workers EXCEPT ![w] = Raise(called)]
             /\ after_queue' = Append(after_queue, [cb |-> "showerror", id |-> w])
    /\ UNCHANGED <<clock, cups_conn, session, loop, timers, files, reqs>>

\* lines 622-635: one turn of the polling loop
DoPrintPoll(w, report) ==
    /\ Running
    /\ workers[w].pc = "poll"
    /\ Len(Told(workers[w].hist, report)) <= MaxPolls
    /\ report \in ActiveReports => Len(Told(workers[w].hist, report)) < MaxPolls
    /\ LET polled == [workers[w] EXCEPT !.hist = Told(@, report)]
           outcome == PollOutcome(report)
       IN CASE outcome = "again" ->
                 /\ workers' = [workers EXCEPT ![w] = polled]
                 /\ UNCHANGED after_queue
            [] outcome = "success" ->
                 /\ workers' = [workers EXCEPT ![w] = Succeed(polled)]
                 /\ after_queue' = Append(after_queue, [cb |-> "show_success", id |-> w])
            [] outcome = "raise" ->
                 /\ workers' = [workers EXCEPT ![w] = Raise(polled)]
                 /\ after_queue' = Append(after_queue, [cb |-> "showerror", id |-> w])
    /\ UNCHANGED <<clock, cups_conn, session, loop, timers, files, reqs>>

\* DoPrintExcept without the call of line 640
DoPrintExcept_NoWelcome(w) ==
    /\ Running
    /\ workers[w].pc = "except"
    /\ workers' = [workers EXCEPT ![w] = [@ EXCEPT !.pc = "done"]]
    /\ UNCHANGED <<clock, cups_conn, session, loop, after_queue, timers, files,
                   reqs>>

\* line 640, and the end of the except clause
DoPrintExcept(w) ==
    /\ Running
    /\ workers[w].pc = "except"
    /\ workers' = [workers EXCEPT ![w] = [@ EXCEPT !.pc = "done", !.back = @ + 1]]
    /\ after_queue' = Append(after_queue, [cb |-> "show_welcome", id |-> w])
    /\ UNCHANGED <<clock, cups_conn, session, loop, timers, files, reqs>>

(* --------------------------- specification ------------------------------ *)
Next ==
    \/ \E r \in Requests, has_file \in BOOLEAN, filename \in SessionFilenames,
          t \in 0..MaxClock : ReceiveFileSave(r, has_file, filename, t)
    \/ \E r \in Requests : ReceiveFileAssign(r)
    \/ \E r \in Requests : ReceiveFileSchedule(r)
    \/ RunCallback
    \/ CountdownTimer
    \/ \E rendered \in {0, MaxPages} : Proceed(rendered)
    \/ DismissError
    \/ Cancel
    \/ PrevPage
    \/ NextPage
    \/ \E w \in Workers, widgets \in SessionWidgets : StartPrinting(w, widgets)
    \/ \E w \in Workers : DoPrintBegin(w)
    \/ \E w \in Workers : DoPrintOrientation(w)
    \/ \E w \in Workers : DoPrintSides(w)
    \/ \E w \in Workers : DoPrintSubmit(w)
    \/ \E w \in Workers, report \in ActiveReports \cup FinalReports :
          DoPrintPoll(w, report)
    \/ \E w \in Workers : DoPrintExcept(w)

Spec == Init /\ [][Next]_vars

\* The intake path alone: uploads, their confirmations and the screens up to
\* the press of Print, with every filename and every page count, up to the
\* shutdown and with the scratch directory open to the system.
NextIntake ==
    \/ \E r \in Requests, has_file \in BOOLEAN, filename \in Filenames,
          t \in 0..MaxClock : ReceiveFileSave(r, has_file, filename, t)
    \/ \E r \in Requests : ReceiveFileAssign(r)
    \/ \E r \in Requests : ReceiveFileSchedule(r)
    \/ RunCallback
    \/ \E rendered \in 0..MaxPages : Proceed(rendered)
    \/ DismissError
    \/ Cancel
    \/ PrevPage
    \/ NextPage
    \/ \E w \in Workers : StartPrinting(w, DefaultWidgets)
    \/ \E removed \in BOOLEAN : OnClosing(removed)
    \/ \E p \in DOMAIN files : ScratchCleaner(p)

SpecIntake == Init /\ [][NextIntake]_vars

\* The print path alone, from the Preview screen of a first upload, with
\* every value the widgets can hold.
InitPrint ==
    /\ clock = 0
    /\ cups_conn \in BOOLEAN
    /\ current_screen = "preview"
    /\ current_file = StoredPath(0, "a.pdf")
    /\ preview_images = MaxPages
    /\ current_page = 0
    /\ print_settings = [page_range |-> "all", orientation |-> "portrait",
                         duplex |-> "none"]
    /\ countdown = 0
    /\ loop_pc = "mainloop"
    /\ loop_calls = {}
    /\ after_queue = <<>>
    /\ timers = 0
    /\ files = DictSet([p \in {} |-> 0], StoredPath(0, "a.pdf"), 1)
    /\ reqs = [r \in Requests |->
                 IF r = 1
                 THEN [IdleRequest EXCEPT !.pc = "done", !.has_file = TRUE,
                          !.filename = "a.pdf", !.path = StoredPath(0, "a.pdf"),
                          !.status = 200, !.stored = TRUE, !.published = TRUE,
                          !.turn = 1, !.scheduled = TRUE]
                 ELSE IdleRequest]
    /\ workers = [w \in Workers |-> IdleWorker]

NextPrint ==
    \/ \E w \in Workers, widgets \in Widgets : StartPrinting(w, widgets)
    \/ \E w \in Workers : DoPrintBegin(w)
    \/ \E w \in Workers : DoPrintOrientation(w)
    \/ \E w \in Workers : DoPrintSides(w)
    \/ \E w \in Workers : DoPrintSubmit(w)
    \/ \E w \in Workers, report \in ActiveReports \cup FinalReports :
          DoPrintPoll(w, report)
    \/ \E w \in Workers : DoPrintExcept(w)
    \/ RunCallback
    \/ CountdownTimer

SpecPrint == InitPrint /\ [][NextPrint]_vars

\* The kiosk while it keeps running, with one document name and one choice of
\* widgets: every request thread that can take a step eventually takes it, and
\* the main loop eventually runs a callback that is waiting.
NextLive ==
    \/ \E r \in Requests, t \in 0..MaxClock : ReceiveFileSave(r, TRUE, "a.pdf", t)
    \/ \E r \in Requests : ReceiveFileAssign(r)
    \/ \E r \in Requests : ReceiveFileSchedule(r)
    \/ RunCallback
    \/ CountdownTimer
    \/ \E rendered \in {0, MaxPages} : Proceed(rendered)
    \/ DismissError
    \/ Cancel
    \/ \E w \in Workers : StartPrinting(w, DefaultWidgets)
    \/ \E w \in Workers : DoPrintBegin(w)
    \/ \E w \in Workers : DoPrintOrientation(w)
    \/ \E w \in Workers : DoPrintSides(w)
    \/ \E w \in Workers : DoPrintSubmit(w)
    \/ \E w \in Workers, report \in ActiveReports \cup FinalReports :
          DoPrintPoll(w, report)
    \/ \E w \in Workers : DoPrintExcept(w)

SpecLive ==
    /\ Init
    /\ [][NextLive]_vars
    /\ WF_vars(RunCallback)
    /\ \A r \in Requests : WF_vars(ReceiveFileAssign(r))
    /\ \A r \in Requests : WF_vars(ReceiveFileSchedule(r))

\* The same kiosk, with the print workers running on: a worker that can take
\* a step eventually takes it, and the spooler eventually gives a waiting
\* worker an answer that ends its polling (completed, cancelled, the job
\* missing from the list, or an error).
SpecJobs ==
    /\ Init
    /\ [][NextLive]_vars
    /\ \A w \in Workers :
          /\ WF_vars(DoPrintBegin(w))
          /\ WF_vars(DoPrintOrientation(w))
          /\ WF_vars(DoPrintSides(w))
          /\ WF_vars(DoPrintSubmit(w))
          /\ WF_vars(\E report \in FinalReports : DoPrintPoll(w, report))
          /\ WF_vars(DoPrintExcept(w))

(* ========================= claims: intake =============================== *)
Succeeded(r) == reqs[r].status = 200
Scheduled(r) ==
    \E i \in DOMAIN after_queue :
        after_queue[i] = [cb |-> "show_file_confirmation", id |-> r]
Holds(r) == {p \in DOMAIN files : files[p] = r}

\* C1 (receive_file, lines 772-775): any two successful uploads have distinct stored paths, and the file of
\* each still holds the bytes that upload wrote (no later upload wrote over it).
C1_DistinctStoredPaths ==
    \A r1, r2 \in Requests :
        (r1 # r2 /\ Succeeded(r1) /\ Succeeded(r2)) =>
            /\ reqs[r1].path # reqs[r2].path
            /\ files[reqs[r1].path] = r1

\* C2 (receive_file, lines 762-770): a request without a 'file' part, or with an empty filename, is answered
\* 400 and does nothing else: it stores no file, it never makes its path the
\* active document and it schedules no show_file_confirmation.
C2_InvalidUploadRejected ==
    \A r \in Requests :
        (reqs[r].pc # "idle" /\ (~reqs[r].has_file \/ reqs[r].filename = "")) =>
            /\ reqs[r].pc = "done"
            /\ reqs[r].status = 400
            /\ Holds(r) = {}
            /\ ~reqs[r].stored
            /\ ~reqs[r].published
            /\ reqs[r].path = None
            /\ ~reqs[r].scheduled
            /\ ~Scheduled(r)

\* both kinds of invalid request have been answered 400
C2_Witness ==
    \E r1, r2 \in Requests :
        /\ reqs[r1].pc = "done" /\ ~reqs[r1].has_file
        /\ reqs[r2].pc = "done" /\ reqs[r2].has_file /\ reqs[r2].filename = ""
        /\ reqs[r1].status = 400 /\ reqs[r2].status = 400

\* C3 (receive_file, lines 764-792): a request whose file.save or os.path.getsize raised is answered with a
\* failure status (not 2xx), never makes its path the active document and
\* schedules no show_file_confirmation.
C3_StorageFailureContained ==
    \A r \in Requests :
        reqs[r].error # "none" =>
            /\ reqs[r].pc = "done"
            /\ reqs[r].status >= 300
            /\ ~reqs[r].published
            /\ ~reqs[r].scheduled
            /\ ~Scheduled(r)

\* a save has failed while an earlier upload is the active document, which
\* is still the active document
C3_Witness ==
    \E r1, r2 \in Requests :
        /\ r1 # r2
        /\ reqs[r2].error = "getsize"
        /\ reqs[r2].status = 500
        /\ Succeeded(r1)
        /\ current_file = reqs[r1].path

(* ====================== claims: print controller ======================== *)
LastAnswer(w) == workers[w].hist[Len(workers[w].hist)]
\* every callback the worker scheduled has been run by the main loop
CallbacksRan(w) ==
    /\ workers[w].pc = "done"
    /\ \A i \in DOMAIN after_queue : after_queue[i].id # w
                \/ after_queue[i].cb = "show_file_confirmation"

\* the state of the print controller of 4.4 for one press of Print
ControllerState(w) ==
    CASE workers[w].pc = "idle" -> "Idle"
      [] workers[w].pc \in {"sleep", "orient", "duplex", "submit"} -> "Submitting"
      [] workers[w].pc = "poll" -> "Polling"
      [] workers[w].pc = "done" /\ workers[w].succ > 0 -> "Completed"
      [] workers[w].hist # <<>> /\ LastAnswer(w) = "cancelled" -> "Cancelled"
      [] OTHER -> "Failed"

\* C4 (do_print, lines 589-616): the options given to printFile have
\* orientation-requested '4' for landscape and '3' otherwise, sides
\* two-sided-long-edge for long, two-sided-short-edge for short and one-sided
\* otherwise, and a page-ranges entry exactly when page_range is not 'all',
\* then equal to it; there is no other entry.
C4_SpoolerOptions ==
    \A w \in Workers :
        workers[w].pc \in {"submit", "poll"} =>
            LET o == workers[w].options
                ps == print_settings
            IN /\ DOMAIN o \subseteq {"page-ranges", "orientation-requested", "sides"}
               /\ {"orientation-requested", "sides"} \subseteq DOMAIN o
               /\ o["orientation-requested"] =
                     (IF ps.orientation = "landscape" THEN "4" ELSE "3")
               /\ o["sides"] = (CASE ps.duplex = "long" -> "two-sided-long-edge"
                                  [] ps.duplex = "short" -> "two-sided-short-edge"
                                  [] OTHER -> "one-sided")
               /\ ("page-ranges" \in DOMAIN o) <=> (ps.page_range # "all")
               /\ ("page-ranges" \in DOMAIN o) => (o["page-ranges"] = ps.page_range)

\* the job of {landscape, long, all} is with the spooler
C4_Witness ==
    \E w \in Workers :
        /\ workers[w].pc = "poll"
        /\ print_settings = [page_range |-> "all", orientation |-> "landscape",
                             duplex |-> "long"]
        /\ workers[w].options = [k \in {"orientation-requested", "sides"} |->
               IF k = "sides" THEN "two-sided-long-edge" ELSE "4"]

C5_Scenario == <<"submitted", "printing", "completed">>

\* C5 (do_print, lines 577-640): a job the spooler took and reported as
\* submitted, then printing, then completed ends Completed: while it is being
\* reported the controller is Polling with nothing scheduled, and once
\* completed is reported exactly one show_success and no failure outcome (no
\* error dialog, no show_welcome) has been scheduled, after one printFile call.
C5_CompletedOnce ==
    \A w \in Workers :
        /\ workers[w].hist \in {<<"submitted">>, <<"submitted", "printing">>} =>
              /\ ControllerState(w) = "Polling"
              /\ workers[w].submits = 1
              /\ workers[w].succ = 0 /\ workers[w].fail = 0 /\ workers[w].back = 0
        /\ workers[w].hist = C5_Scenario =>
              /\ ControllerState(w) = "Completed"
              /\ workers[w].submits = 1
              /\ workers[w].succ = 1 /\ workers[w].fail = 0 /\ workers[w].back = 0
              /\ workers[w].dialog = "none"

\* the scenario has run and the Success screen is up
C5_Witness ==
    \E w \in Workers :
        /\ workers[w].hist = C5_Scenario
        /\ workers[w].succ = 1
        /\ current_screen = "success"

\* C6 (do_print, lines 621-635): a job found missing from getJobs' list, with
\* no completed or cancelled code reported before, ends Completed: one
\* show_success and no failure outcome has been scheduled.
C6_MissingIsCompleted ==
    \A w \in Workers :
        (/\ workers[w].hist # <<>>
         /\ LastAnswer(w) = "missing"
         /\ \A i \in DOMAIN workers[w].hist :
                workers[w].hist[i] \notin {"completed", "cancelled"}) =>
            /\ ControllerState(w) = "Completed"
            /\ workers[w].succ = 1 /\ workers[w].fail = 0 /\ workers[w].back = 0
            /\ workers[w].dialog = "none"

\* a job reported as printing and then missing has ended with show_success
C6_Witness ==
    \E w \in Workers :
        /\ workers[w].hist = <<"printing", "missing">>
        /\ workers[w].succ = 1
        /\ workers[w].pc = "done"

\* C7 (do_print, lines 622-640): a job for which a poll saw the cancelled code
\* ends Cancelled: once the main loop has run the worker's callbacks, the error
\* dialog has been shown and show_welcome was scheduled, and show_success never.
C7_CancelledSurfaced ==
    \A w \in Workers :
        (workers[w].hist # <<>> /\ LastAnswer(w) = "cancelled" /\ CallbacksRan(w)) =>
            /\ ControllerState(w) = "Cancelled"
            /\ workers[w].dialog = "shown"
            /\ workers[w].back = 1
            /\ workers[w].succ = 0

\* C8 (do_print, lines 577-640): an attempt whose printFile or getJobs raised
\* ends Failed: once the main loop has run the worker's callbacks, the error
\* dialog has been shown and show_welcome was scheduled, show_success never,
\* and printFile was called once.
C8_FailureSurfacedNoRetry ==
    \A w \in Workers :
        /\ workers[w].submits <= 1
        /\ (/\ workers[w].submits = 1
            /\ workers[w].hist = <<>> \/ LastAnswer(w) = "error"
            /\ CallbacksRan(w)) =>
               /\ ControllerState(w) = "Failed"
               /\ workers[w].dialog = "shown"
               /\ workers[w].back = 1
               /\ workers[w].succ = 0

\* C9 (__init__, lines 57-65; do_print, lines 586-587): without a spooler
\* connection no attempt calls printFile or schedules show_success, and once
\* the main loop has run an attempt's callbacks the error dialog has been shown
\* and show_welcome was scheduled.
C9_NoConnectionFailsFast ==
    ~cups_conn =>
        \A w \in Workers :
            /\ workers[w].submits = 0
            /\ workers[w].succ = 0
            /\ CallbacksRan(w) => (workers[w].dialog = "shown" /\ workers[w].back = 1)

\* The page-range grammar of 4.2, for the entries of CustomEntries: the tokens
\* of an expression, each a range a-b (a single page p is p-p) or malformed.
RangeTokens(expression) ==
    CASE expression = "1-2" -> <<[ok |-> TRUE, a |-> 1, b |-> 2]>>
      [] expression = "3-2" -> <<[ok |-> TRUE, a |-> 3, b |-> 2]>>
      [] expression = "1-10" -> <<[ok |-> TRUE, a |-> 1, b |-> 10]>>
      [] expression = "1-x" -> <<[ok |-> FALSE, a |-> 1, b |-> 0]>>
      [] OTHER -> <<>>

InvalidRange(expression, total_pages) ==
    \E i \in DOMAIN RangeTokens(expression) :
        LET token == RangeTokens(expression)[i]
        IN \/ ~token.ok
           \/ token.a < 1
           \/ token.b > total_pages
           \/ token.a > token.b

\* C10 (start_printing, lines 494-508; do_print, lines 592-594): no job with
\* the spooler carries as its page-ranges an expression with a malformed
\* token, a page outside 1..total_pages or a range a-b with a > b.
C10_InvalidRangeNotSubmitted ==
    \A w \in Workers :
        (workers[w].pc = "poll" /\ "page-ranges" \in DOMAIN workers[w].options) =>
            ~InvalidRange(workers[w].options["page-ranges"], preview_images)

(* =================== claims: settings and documents ===================== *)
\* the widgets' values that mean every page
MeansEveryPage(widgets) ==
    \/ widgets.choice = "all"
    \/ widgets.choice = "custom" /\ widgets.entry \in {"", Placeholder}

\* C11 (start_printing, lines 496-508; do_print, lines 592-594): a job whose
\* press of Print had the page range "all", or custom with the entry empty or
\* at its placeholder, is with the spooler without a page-ranges option.
C11_EveryPageUnrestricted ==
    \A w \in Workers :
        (workers[w].pc = "poll" /\ MeansEveryPage(workers[w].widgets)) =>
            "page-ranges" \notin DOMAIN workers[w].options

\* the options do_print builds when it reads the same settings three times
OptionsOf(settings) ==
    SidesOption(OrientationOption(PageRangeOption(EmptyDict, settings.page_range),
                                  settings.orientation),
                settings.duplex)

\* C12 (start_printing, lines 504-513; do_print, lines 584-616): the options
\* of a job with the spooler are those of the settings chosen at the press of
\* Print that started the job, whatever happened between the press and the
\* submission.
C12_SettingsSnapshot ==
    \A w \in Workers :
        workers[w].pc = "poll" =>
            workers[w].options = OptionsOf(CollectSettings(workers[w].widgets))

\* the main loop has run the show_file_confirmation callback of request r
ConfirmationRan(r) == reqs[r].scheduled /\ ~Scheduled(r)

\* C13 (receive_file, lines 772-788; show_file_confirmation, lines 152-155):
\* an upload that was stored makes its stored path the active document when
\* it runs line 781, and its Confirmation screen is eventually shown: the main
\* loop eventually runs its callback, and the step that runs it puts the
\* Confirmation screen up, whatever screen was up before.
C13_UploadSupersedes ==
    /\ \A r \in Requests :
          (reqs[r].pc = "assign") ~>
              (current_screen = "confirmation" /\ ConfirmationRan(r))
    /\ [][\A r \in Requests :
            (reqs[r].pc = "assign" /\ reqs'[r].pc # "assign") =>
                (current_file' = reqs[r].path /\ reqs'[r].pc = "after")]_vars
    /\ [][\A r \in Requests :
            (Scheduled(r) /\ ~Scheduled(r)') => current_screen' = "confirmation"]_vars

\* the confirmation of the second upload has replaced the Printing screen of
\* a job that is still under way, and the second upload is the active document
C13_Witness ==
    /\ current_screen = "confirmation"
    /\ ConfirmationRan(2)
    /\ current_file = reqs[2].path
    /\ workers[1].pc = "sleep"
    /\ workers[1].back = 0

\* a later upload has taken the active-document slot from upload r
Superseded(r) ==
    \E r2 \in Requests : reqs[r2].published /\ reqs[r2].turn > reqs[r].turn

\* C14 (cleanup, lines 802-808; on_closing, lines 816-818; receive_file,
\* lines 772-782): the file of a successful upload that a later upload has
\* superseded is gone from the scratch directory, at the latest once
\* on_closing has run cleanup and ended the main loop.
C14_StoredFilesDeleted ==
    \A r \in Requests :
        (Succeeded(r) /\ Superseded(r) /\ loop_pc = "exited") => Holds(r) = {}

(* ======================== claims: display loop ========================== *)
\* C15 (show_success, lines 673-684; do_countdown, lines 686-696): the
\* Success screen gives way to Welcome only when the countdown, started at 5,
\* has been counted down to 0.
C15_WelcomeAfterCountdown ==
    [][(current_screen = "success" /\ current_screen' = "welcome") =>
           countdown = 0]_vars

C17_IntakeNeverWritesSession ==
    [][(current_file' # current_file \/ current_screen' # current_screen) =>
           reqs' = reqs]_vars

\* C18 (receive_file, lines 772-788; start_file_receiver, lines 794-799): if
\* upload A took the active-document slot before upload B, the confirmation
\* of A is scheduled, and run by the main loop, before the confirmation of B.
C18_ConfirmationsInSlotOrder ==
    \A ra, rb \in Requests :
        (reqs[ra].published /\ reqs[rb].published /\ reqs[ra].turn < reqs[rb].turn) =>
            /\ reqs[rb].scheduled => reqs[ra].scheduled
            /\ ConfirmationRan(rb) => ConfirmationRan(ra)

\* the calls that can take long: rendering, submission and status polling
SlowCalls == {"convert_from_path", "printFile", "getJobs"}

\* C19 (show_preview, lines 227-244; start_printing, lines 494-513; do_print,
\* lines 577-640): the main loop thread never makes a slow call itself.
C19_LoopNeverBlocks ==
    loop_calls \cap SlowCalls = {}

\* C20 (show_preview, lines 237-244; prev_page and next_page, lines 482-492):
\* while a rendered document is held, the page index is within it, prev_page
\* at the first page and next_page at the last page leave the index as it is,
\* and from the page shown neither leaves the document.
C20_PageIndexInBounds ==
    preview_images > 0 =>
        /\ 0 <= current_page /\ current_page <= preview_images - 1
        /\ PrevIndex(0, preview_images) = 0
        /\ NextIndex(preview_images - 1, preview_images) = preview_images - 1
        /\ PrevIndex(current_page, preview_images) \in 0..(preview_images - 1)
        /\ NextIndex(current_page, preview_images) \in 0..(preview_images - 1)

\* next_page has brought the Preview screen to the last page of the document
C20_Witness ==
    /\ current_screen = "preview"
    /\ loop_pc = "mainloop"
    /\ preview_images = MaxPages
    /\ current_page = preview_images - 1
    /\ current_page > 0

(* ====================== claims: jobs and outcomes ======================= *)
\* C21 (start_printing, lines 510-513; do_print, lines 577-616; receive_file,
\* lines 780-782): the document of a job with the spooler is the document
\* that was active when Print was pressed for that job.
C21_DocumentSnapshot ==
    \A w \in Workers :
        workers[w].pc = "poll" => workers[w].document = workers[w].active

\* the step is the main loop running a callback c that a print worker scheduled
RunsOutcome(c) ==
    /\ after_queue # <<>>
    /\ Head(after_queue).cb = c
    /\ after_queue' = Tail(after_queue)

\* C22 (do_print, lines 634-640; show_success, lines 642-645; receive_file,
\* lines 780-782): the Success screen is entered only from the Printing
\* screen, and the show_welcome of a failed or cancelled job leaves the
\* Confirmation and Preview screens as they are.
C22_OutcomeOnlyOnPrinting ==
    /\ [][(current_screen # "success" /\ current_screen' = "success") =>
             current_screen = "printing"]_vars
    /\ [][(RunsOutcome("show_welcome") /\ current_screen \in {"confirmation", "preview"}) =>
             current_screen' = current_screen]_vars

\* what a worker has posted to the main loop: one show_success, or one error
\* dialog and one show_welcome
PostedSuccess(w) ==
    workers[w].succ = 1 /\ workers[w].fail = 0 /\ workers[w].back = 0
PostedFailure(w) ==
    workers[w].succ = 0 /\ workers[w].fail = 1 /\ workers[w].back = 1

\* C23 (do_print, lines 577-640): every worker started by a press of Print
\* comes to its end, and at its end it has posted either the success outcome
\* or the failure outcome (the error dialog, then show_welcome), not both and
\* not neither; before its end it has posted no success and no show_welcome,
\* and the error dialog only inside its except clause.
C23_ExactlyOneOutcome ==
    /\ \A w \in Workers : (workers[w].pc = "sleep") ~> (workers[w].pc = "done")
    /\ [](\A w \in Workers :
            /\ workers[w].pc = "done" =>
                  (PostedSuccess(w) /\ ~PostedFailure(w)) \/
                  (PostedFailure(w) /\ ~PostedSuccess(w))
            /\ workers[w].pc = "except" =>
                  (workers[w].succ = 0 /\ workers[w].fail = 1 /\ workers[w].back = 0)
            /\ workers[w].pc \notin {"done", "except"} =>
                  (workers[w].succ = 0 /\ workers[w].fail = 0 /\ workers[w].back = 0)
            /\ \A i, j \in DOMAIN after_queue :
                  (after_queue[i] = [cb |-> "show_welcome", id |-> w] /\
                   after_queue[j] = [cb |-> "showerror", id |-> w]) => j < i)

\* one worker has ended with the success outcome, another with the failure
\* outcome after its job was reported cancelled
C23_Witness ==
    \E w1, w2 \in Workers :
        /\ workers[w1].pc = "done" /\ PostedSuccess(w1)
        /\ workers[w2].pc = "done" /\ PostedFailure(w2)
        /\ workers[w2].hist # <<>> /\ LastAnswer(w2) = "cancelled"

\* the workers that were started and have not reached their end
InFlight == {w \in Workers : workers[w].pc \notin {"idle", "done"}}

\* C24 (start_printing, lines 494-513; do_print, lines 577-640; receive_file,
\* lines 780-782): at most one print worker is under way at any time, and at
\* most one job is with the spooler.
C24_OneJobInFlight ==
    /\ Cardinality(InFlight) <= 1
    /\ Cardinality({w \in Workers : workers[w].pc = "poll"}) <= 1

====
